---- MODULE Spec2Model ----
(***************************************************************************)
(* The response transforms of editors/code/src/client.ts: the hover        *)
(* middleware (provideHover, renderHoverActions, renderCommand) and the     *)
(* lazy code-action middleware (provideCodeActions) with its grouping pass. *)
(*                                                                         *)
(* JavaScript values are represented as follows.  A string-valued field is  *)
(* a string; an absent field is Undefined and a field holding a value that  *)
(* is not a string is NonString.  An object is a record; an absent object   *)
(* is UndefinedCommand.  An array is a sequence; an array standing where an *)
(* object may also stand is the record [list |-> sequence].                 *)
(***************************************************************************)
EXTENDS Integers, Sequences, FiniteSets, TLC

VARIABLES
    pc,         \* per code-action invocation: idle, waiting, loop, collapse, done
    params,     \* per invocation: the lc.CodeActionParams built at line 85
    values,     \* per invocation: the list the transport resolved with
    pos,        \* per invocation: index of the next item of the for loop (line 94)
    result,     \* per invocation: the local array `result` (line 92)
    groups,     \* per invocation: the local Map `groups`, in insertion order (line 93)
    gpos,       \* per invocation: index of the next entry of the loop at line 127
    outcome,    \* per invocation: how the returned promise settled
    transport,  \* per invocation: how client.sendRequest settled (pending,
                \* fulfilled with a list, null, rejected)
    round,      \* per invocation: 1 for a server response, 2 for a pass on its own output
    first,      \* per invocation: the list returned by round 1
    running,    \* the invocation whose callback is executing (0: none)
    sent,       \* the requests handed to client.sendRequest, in order
    log,        \* the failures handed to client.logFailedRequest, in order
    hpc,        \* hover: idle, waiting, done (fulfilled), failed (rejected)
    hresponse,  \* hover: the raw response the transport resolved with
    hresult     \* hover: what provideHover's promise resolved to

vars == <<pc, params, values, pos, result, groups, gpos, outcome, transport,
          round, first, running, sent, log, hpc, hresponse, hresult>>

cavars == <<pc, params, values, pos, result, groups, gpos, outcome, transport,
            round, first, running>>

hvars == <<hpc, hresponse, hresult>>

-----------------------------------------------------------------------------
(* Bounds of the model. *)

\* longest list of code actions a response carries
MaxLen == 3
\* longest list of code actions a response carries when two requests overlap
MaxLenConc == 2
\* most action groups and most links per group in a hover
MaxHoverGroups == 2
MaxLinks == 2

-----------------------------------------------------------------------------
(* JavaScript values. *)

Undefined == "<undefined>"
NonString == "<non-string>"
UndefinedCommand == [absent |-> TRUE]

SeqsUpTo(S, n) == UNION {[1..k -> S] : k \in 0..n}

\* Is.string of vscode-languageclient/lib/utils/is
IsString(v) == v \notin {Undefined, NonString}

\* JavaScript truthiness of a string-or-undefined value: `if (group)`, `group.title ? ..`
Truthy(v) == v \notin {Undefined, ""}

\* `${v}` inside a template literal
ToStr(v) == IF v = Undefined THEN "undefined" ELSE v

-----------------------------------------------------------------------------
(* The code-action middleware. *)

Invocations == {1, 2}

resolveCodeAction == "rust-analyzer.resolveCodeAction"
applyActionGroup == "rust-analyzer.applyActionGroup"

\* lc.Command.is: an object with a string title and a string command
CommandIs(c) ==
    /\ DOMAIN c = {"command", "title", "arguments"}
    /\ IsString(c.title)
    /\ IsString(c.command)

\* lc.WorkspaceEdit.is: a protocol edit has `changes` or `documentChanges`;
\* the editor's own vscode.WorkspaceEdit has neither
WorkspaceEditIs(e) == e = "lc:edit"

\* protocol2CodeConverter.asWorkspaceEdit
asWorkspaceEdit(e) == IF e = Undefined THEN Undefined ELSE "vs:edit"

\* Is.typedArray(diagnostics, lc.Diagnostic.is)
DiagnosticsIs(diagnostics) == diagnostics = "lc:diagnostics"

\* lc.CodeAction.is (line 96); no item of the model has an isPreferred field
CodeActionIs(item) ==
    /\ IsString(item.title)
    /\ (item.diagnostics = Undefined \/ DiagnosticsIs(item.diagnostics))
    /\ (item.kind = Undefined \/ IsString(item.kind))
    /\ (item.edit # Undefined \/ item.command # UndefinedCommand)
    /\ (item.command = UndefinedCommand \/ CommandIs(item.command))
    /\ (item.edit = Undefined \/ WorkspaceEditIs(item.edit))

isCodeActionWithoutEditsAndCommands(value) ==
    /\ IsString(value.title)
    /\ (value.diagnostics = Undefined \/ DiagnosticsIs(value.diagnostics))
    /\ (value.kind = Undefined \/ IsString(value.kind))
    /\ (value.edit = Undefined /\ value.command = UndefinedCommand)

\* assert of ./util: returns when the condition holds, throws when it does not
assert(condition) == condition

\* new vscode.CodeAction(title): every other field is undefined
NewCodeAction(title) ==
    [title |-> title, kind |-> Undefined, diagnostics |-> Undefined,
     edit |-> Undefined, command |-> UndefinedCommand]

\* protocol2CodeConverter.asCodeAction (line 98)
asCodeAction(item) ==
    [title |-> item.title, kind |-> item.kind, diagnostics |-> item.diagnostics,
     edit |-> asWorkspaceEdit(item.edit), command |-> item.command]

\* the action built for a stub, its id left out of the resolve argument
StubActionWithoutId(item, p) ==
    [NewCodeAction(item.title) EXCEPT
        !.command = [command |-> resolveCodeAction,
                     title |-> item.title,
                     arguments |-> <<[id |-> Undefined, codeActionParams |-> p]>>]]

\* lines 103-114: the action built for a stub
StubAction(item, p) ==
    [NewCodeAction(item.title) EXCEPT
        !.command = [command |-> resolveCodeAction,
                     title |-> item.title,
                     arguments |-> <<[id |-> item.id, codeActionParams |-> p]>>]]

\* the action that stands for a group, its items listed last to first
GroupActionReversed(group, items) ==
    [NewCodeAction(group) EXCEPT
        !.command = [command |-> applyActionGroup,
                     title |-> "",
                     arguments |-> <<[list |->
                         [k \in 1..Len(items) |->
                             [label |-> items[Len(items) + 1 - k].title,
                              arguments |->
                                  items[Len(items) + 1 - k].command.arguments[1]]]]>>]]

\* lines 131-138: the action that stands for a group of several items
GroupAction(group, items) ==
    [NewCodeAction(group) EXCEPT
        !.command = [command |-> applyActionGroup,
                     title |-> "",
                     arguments |-> <<[list |->
                         [k \in 1..Len(items) |->
                             [label |-> items[k].title,
                              arguments |-> items[k].command.arguments[1]]]]>>]]

\* groups.get(group): the position of the entry in the Map, 0 when there is none
EntryOf(gs, group) ==
    IF \E k \in 1..Len(gs) : gs[k].group = group
    THEN CHOOSE k \in 1..Len(gs) : gs[k].group = group
    ELSE 0

\* what the editor's action object shows when it is read back as a protocol item
AsItem(action) ==
    [title |-> action.title, kind |-> action.kind, diagnostics |-> action.diagnostics,
     edit |-> action.edit, command |-> action.command,
     group |-> Undefined, id |-> Undefined]

-----------------------------------------------------------------------------
(* What the server may answer a code-action request with. *)

GroupTags == {Undefined, "", "g1", "g2"}

RawItem(title, kind, edit, command, group, id) ==
    [title |-> title, kind |-> kind, diagnostics |-> Undefined,
     edit |-> edit, command |-> command, group |-> group, id |-> id]

RunCommand == [command |-> "x.run", title |-> "Run", arguments |-> <<>>]

\* resolvable stubs: a title and an id, no edit, no command, any group field
Stubs ==
    {RawItem(s[1], Undefined, Undefined, UndefinedCommand, g, s[2]) :
        s \in {<<"A", "id1">>, <<"B", "id2">>, <<"C", "id3">>}, g \in GroupTags}

\* a quick fix that carries its edit
QuickFix == RawItem("Fix", Undefined, "lc:edit", UndefinedCommand, Undefined, Undefined)

\* items the middleware does not expect
Unexpected ==
    { RawItem("Fix", Undefined, "lc:edit", RunCommand, Undefined, Undefined),
      RawItem("A", Undefined, Undefined, RunCommand, Undefined, "id1"),
      RawItem("A", Undefined, Undefined, RunCommand, "g1", "id1"),
      RawItem("Run", Undefined, Undefined, [string |-> "x.run"], Undefined, Undefined),
      RawItem(NonString, Undefined, Undefined, UndefinedCommand, Undefined, "id1"),
      RawItem("A", NonString, Undefined, UndefinedCommand, "g1", "id1") }

Items == Stubs \cup {QuickFix} \cup Unexpected

\* the items of the overlapping-requests specification: stubs only
ItemsConc == {it \in Stubs : it.group \in {Undefined, "g1"} /\ it.title \in {"A", "B"}}

Documents == {"a.rs", "b.rs"}

\* code2ProtocolConverter.asTextDocumentIdentifier / asRange / asCodeActionContext
asTextDocumentIdentifier(document) == [uri |-> "file:///" \o document]
asRange(range) == [start |-> range[1], end |-> range[2]]
asCodeActionContext(context) == [diagnostics |-> context, only |-> Undefined]

-----------------------------------------------------------------------------
(* provideCodeActions, one action per step of the handler. *)

\* lines 84-90: build the params and hand the request to the transport
provideCodeActions(i, document, range, context) ==
    /\ pc[i] = "idle"
    /\ running = 0
    /\ LET p == [textDocument |-> asTextDocumentIdentifier(document),
                 range |-> asRange(range),
                 context |-> asCodeActionContext(context)]
       IN /\ params' = [params EXCEPT ![i] = p]
          /\ sent' = Append(sent, [type |-> "textDocument/codeAction", params |-> p])
    /\ pc' = [pc EXCEPT ![i] = "waiting"]
    /\ transport' = [transport EXCEPT ![i] = "pending"]
    /\ UNCHANGED <<values, pos, result, groups, gpos, outcome, round, first,
                   running, log, hvars>>

\* lines 92-94: the callback starts on a list `vs` with empty locals
StartPass(i, vs) ==
    /\ values' = [values EXCEPT ![i] = vs]
    /\ pos' = [pos EXCEPT ![i] = 1]
    /\ result' = [result EXCEPT ![i] = <<>>]
    /\ groups' = [groups EXCEPT ![i] = <<>>]
    /\ gpos' = [gpos EXCEPT ![i] = 1]
    /\ pc' = [pc EXCEPT ![i] = IF Len(vs) = 0 THEN "collapse" ELSE "loop"]
    /\ running' = i

\* line 90: the transport resolves with a list, one of `lists`
CodeActionsFulfilled(i, lists) ==
    /\ pc[i] = "waiting"
    /\ running = 0
    /\ transport' = [transport EXCEPT ![i] = "fulfilled"]
    /\ \E vs \in lists : StartPass(i, vs)
    /\ UNCHANGED <<params, outcome, round, first, sent, log, hvars>>

\* line 91: the transport resolves with null
CodeActionsNull(i) ==
    /\ pc[i] = "waiting"
    /\ running = 0
    /\ transport' = [transport EXCEPT ![i] = "null"]
    /\ pc' = [pc EXCEPT ![i] = "done"]
    /\ outcome' = [outcome EXCEPT ![i] = "undefined"]
    /\ UNCHANGED <<params, values, pos, result, groups, gpos, round, first,
                   running, sent, log, hvars>>

\* line 144: the transport rejects
CodeActionsRejected(i) ==
    /\ pc[i] = "waiting"
    /\ running = 0
    /\ transport' = [transport EXCEPT ![i] = "rejected"]
    /\ pc' = [pc EXCEPT ![i] = "done"]
    /\ outcome' = [outcome EXCEPT ![i] = "undefined"]
    /\ UNCHANGED <<params, values, pos, result, groups, gpos, round, first,
                   running, sent, log, hvars>>

\* what the promise would settle to if the rejection callback also caught the
\* errors thrown by the fulfilment callback
ThrownIsSwallowed == "undefined"

\* lines 90, 143-145: then(onFulfilled, onRejected).  An error thrown by
\* onFulfilled rejects the promise then() returned; onRejected, which is attached
\* to the transport's promise only, does not see it
ThrownInCallback == "assertion"

\* an assertion throws inside the fulfilment callback
Throw(i) ==
    /\ pc' = [pc EXCEPT ![i] = "done"]
    /\ outcome' = [outcome EXCEPT ![i] = ThrownInCallback]
    /\ running' = 0
    /\ UNCHANGED <<pos, result, groups>>

\* the loop moves on to the next item, or to the loop of line 127
Continue(i) ==
    /\ pos' = [pos EXCEPT ![i] = pos[i] + 1]
    /\ pc' = [pc EXCEPT ![i] = IF pos[i] = Len(values[i]) THEN "collapse" ELSE "loop"]
    /\ UNCHANGED <<outcome, running>>

\* the params of whichever request was sent last
ParamsOfLatestRequest(i) == sent[Len(sent)].params

\* line 108: the params the callback closes over are those of its own invocation
ParamsOf(i) == params[i]

\* the assertions without the one of line 97
AcceptsCommands(item) ==
    IF CodeActionIs(item)
    THEN TRUE
    ELSE assert(isCodeActionWithoutEditsAndCommands(item))

\* lines 96-102: the two assertions an item has to pass
Accepts(item) ==
    IF CodeActionIs(item)
    THEN assert(item.command = UndefinedCommand)
    ELSE assert(isCodeActionWithoutEditsAndCommands(item))

\* the slot of the last action pushed so far
ReservedIndexOfLast(res) == Len(res)

\* line 118: `index: result.length`, the slot the next push fills
ReservedIndex(res) == Len(res) + 1

\* a group's slot holding a composite whatever the number of items
CollapsedAlwaysWrapped(entry) == GroupAction(entry.group, entry.items)

\* lines 128-140: what a group's slot holds in the end
Collapsed(entry) ==
    IF Len(entry.items) = 1
    THEN entry.items[1]
    ELSE GroupAction(entry.group, entry.items)

\* lines 94-126: one iteration of the for loop
ProcessItem(i) ==
    /\ pc[i] = "loop"
    /\ running = i
    /\ LET item == values[i][pos[i]]
           action == StubAction(item, ParamsOf(i))
           e == EntryOf(groups[i], item.group)
       IN IF ~Accepts(item)
          THEN Throw(i)
          ELSE IF CodeActionIs(item)
          THEN /\ result' = [result EXCEPT ![i] = Append(@, asCodeAction(item))]
               /\ UNCHANGED groups
               /\ Continue(i)
          ELSE IF Truthy(item.group)
          THEN /\ IF e = 0
                  THEN /\ groups' = [groups EXCEPT ![i] =
                              Append(@, [group |-> item.group,
                                         index |-> ReservedIndex(result[i]),
                                         items |-> <<action>>])]
                       /\ result' = [result EXCEPT ![i] = Append(@, action)]
                  ELSE /\ groups' = [groups EXCEPT ![i][e].items = Append(@, action)]
                       /\ UNCHANGED result
               /\ Continue(i)
          ELSE /\ result' = [result EXCEPT ![i] = Append(@, action)]
               /\ UNCHANGED groups
               /\ Continue(i)
    /\ UNCHANGED <<params, values, gpos, transport, round, first, sent, log, hvars>>

\* lines 127-141: one iteration of the loop over the Map
CollapseGroup(i) ==
    /\ pc[i] = "collapse"
    /\ running = i
    /\ gpos[i] <= Len(groups[i])
    /\ LET entry == groups[i][gpos[i]]
       IN result' = [result EXCEPT ![i][entry.index] = Collapsed(entry)]
    /\ gpos' = [gpos EXCEPT ![i] = gpos[i] + 1]
    /\ UNCHANGED <<pc, params, values, pos, groups, outcome, transport, round,
                   first, running, sent, log, hvars>>

\* line 142
ReturnResult(i) ==
    /\ pc[i] = "collapse"
    /\ running = i
    /\ gpos[i] > Len(groups[i])
    /\ pc' = [pc EXCEPT ![i] = "done"]
    /\ outcome' = [outcome EXCEPT ![i] = "list"]
    /\ running' = 0
    /\ UNCHANGED <<params, values, pos, result, groups, gpos, transport, round,
                   first, sent, log, hvars>>

\* lines 84-94 again: a further request whose response is the list the
\* previous one returned
RunOnOwnOutput(i) ==
    /\ pc[i] = "done"
    /\ running = 0
    /\ outcome[i] = "list"
    /\ round[i] = 1
    /\ round' = [round EXCEPT ![i] = 2]
    /\ first' = [first EXCEPT ![i] = result[i]]
    /\ sent' = Append(sent, [type |-> "textDocument/codeAction", params |-> params[i]])
    /\ outcome' = [outcome EXCEPT ![i] = "pending"]
    /\ StartPass(i, [k \in 1..Len(result[i]) |-> AsItem(result[i][k])])
    /\ UNCHANGED <<params, transport, log, hvars>>

-----------------------------------------------------------------------------
(* The hover middleware. *)

\* the markdown values that contain a fenced rust code block
RustFenced == {"<rust>fn f()</rust>"}

\* md.value.includes of the rust fence (line 12)
IncludesRustFence(value) == value \in RustFenced

toTrusted(md) ==
    IF IncludesRustFence(md.value) THEN [md EXCEPT !.isTrusted = TRUE] ELSE md

\* String(n) of a small number
NumberToString(n) ==
    CASE n = 0 -> "0" [] n = 1 -> "1" [] n = 2 -> "2" [] n = 3 -> "3" [] n = 4 -> "4"
      [] n = 5 -> "5" [] n = 6 -> "6" [] n = 7 -> "7" [] n = 8 -> "8" [] n = 9 -> "9"

\* JSON.stringify of an array of small numbers, as the sequence of its characters
RECURSIVE JsonElements(_, _)
JsonElements(args, k) ==
    IF k > Len(args) THEN <<>>
    ELSE (IF k > 1 THEN <<",">> ELSE <<>>) \o <<NumberToString(args[k])>>
         \o JsonElements(args, k + 1)

JSONstringify(args) == <<"[">> \o JsonElements(args, 1) \o <<"]">>

\* encodeURIComponent of one character: digits are kept, the rest is escaped
EncodeChar(c) ==
    CASE c = "[" -> "%5B"
      [] c = "]" -> "%5D"
      [] c = "," -> "%2C"
      [] OTHER -> c

RECURSIVE encodeURIComponent(_)
encodeURIComponent(chars) ==
    IF chars = <<>> THEN ""
    ELSE EncodeChar(Head(chars)) \o encodeURIComponent(Tail(chars))

\* a link rendered with its title as tooltip text
renderCommandTitleAsTooltip(cmd) ==
    "[" \o cmd.title \o "](command:" \o cmd.command \o "?"
        \o encodeURIComponent(JSONstringify(cmd.arguments))
        \o " '" \o cmd.title \o "')"

\* line 20
renderCommand(cmd) ==
    "[" \o cmd.title \o "](command:" \o cmd.command \o "?"
        \o encodeURIComponent(JSONstringify(cmd.arguments))
        \o " '" \o ToStr(cmd.tooltip) \o "')"

\* Array.prototype.join over already rendered strings
RECURSIVE Join(_, _)
Join(strings, separator) ==
    IF strings = <<>> THEN ""
    ELSE IF Len(strings) = 1 THEN strings[1]
    ELSE strings[1] \o separator \o Join(Tail(strings), separator)

renderHoverActions(actions) ==
    [value |-> Join([g \in 1..Len(actions) |->
                        (IF Truthy(actions[g].title) THEN actions[g].title \o " " ELSE "")
                        \o Join([c \in 1..Len(actions[g].commands) |->
                                    renderCommand(actions[g].commands[c])], " | ")],
                    "___"),
     isTrusted |-> TRUE]

\* protocol2CodeConverter.asHover (line 64): every content block becomes a
\* MarkdownString, not yet trusted
asHover(response) ==
    [contents |-> [k \in 1..Len(response.contents) |->
                      [value |-> response.contents[k], isTrusted |-> FALSE]]]

\* `if (actions && actions.length > 0)`
ActionsNonEmpty(actions) == actions.present /\ actions.list # <<>>

\* `if (actions)` (line 71): an absent field is falsy, every array is truthy
ActionsTruthy(actions) == actions.present

\* lines 63-76: the fulfilment callback, for a response that is not null
EnrichHover(response) ==
    LET hover == asHover(response)
        trusted == [k \in 1..Len(hover.contents) |-> toTrusted(hover.contents[k])]
    IN [kind |-> "hover",
        contents |-> IF ActionsTruthy(response.actions)
                     THEN Append(trusted, renderHoverActions(response.actions.list))
                     ELSE trusted]

\* lines 61-62
provideHover(document, position) ==
    /\ hpc = "idle"
    /\ hpc' = "waiting"
    /\ sent' = Append(sent, [type |-> "textDocument/hover",
                             params |-> [textDocument |-> asTextDocumentIdentifier(document),
                                         position |-> position]])
    /\ UNCHANGED <<cavars, log, hresponse, hresult>>

\* lines 63-76: the transport resolves with a hover, one of `responses`
HoverFulfilled(responses) ==
    /\ hpc = "waiting"
    /\ hpc' = "done"
    /\ \E response \in responses :
          /\ hresponse' = <<response>>
          /\ hresult' = <<EnrichHover(response)>>
    /\ UNCHANGED <<cavars, sent, log>>

\* lines 64-65, 75: the transport resolves with null, asHover gives undefined
HoverNull ==
    /\ hpc = "waiting"
    /\ hpc' = "done"
    /\ hresult' = <<[kind |-> "undefined", contents |-> <<>>]>>
    /\ UNCHANGED <<cavars, sent, log, hresponse>>

\* the rejection callback without the call of client.logFailedRequest
HoverRejectedUnlogged(error) ==
    /\ hpc = "waiting"
    /\ hpc' = "failed"
    /\ hresult' = <<[kind |-> "null", contents |-> <<>>]>>
    /\ UNCHANGED <<cavars, sent, log, hresponse>>

\* lines 77-80: the transport rejects
HoverRejected(error) ==
    /\ hpc = "waiting"
    /\ hpc' = "failed"
    /\ log' = Append(log, [type |-> "textDocument/hover", error |-> error])
    /\ hresult' = <<[kind |-> "null", contents |-> <<>>]>>
    /\ UNCHANGED <<cavars, sent, hresponse>>

-----------------------------------------------------------------------------
(* What the server may answer a hover request with. *)

Links ==
    { [title |-> "Fix 1", command |-> "x.fix", tooltip |-> Undefined, arguments |-> <<1>>],
      [title |-> "Go", command |-> "x.goto", tooltip |-> "Go to f", arguments |-> <<1, 2>>] }

LinkGroups ==
    {[title |-> t, commands |-> cs] :
        t \in {Undefined, "", "Fixes"}, cs \in SeqsUpTo(Links, MaxLinks)}

HoverActions ==
    {[present |-> FALSE, list |-> <<>>]}
    \cup {[present |-> TRUE, list |-> l] : l \in SeqsUpTo(LinkGroups, MaxHoverGroups)}

\* the content blocks of a hover: none, one, or two of which one is rust code
HoverContents ==
    {<<>>, <<"plain text">>} \cup {<<v>> : v \in RustFenced}
    \cup {<<"plain text", v>> : v \in RustFenced}

HoverResponses ==
    {[contents |-> c, actions |-> a] : c \in HoverContents, a \in HoverActions}

-----------------------------------------------------------------------------
(* Specifications. *)

Init ==
    /\ pc = [i \in Invocations |-> "idle"]
    /\ params = [i \in Invocations |-> [textDocument |-> asTextDocumentIdentifier("a.rs"),
                                        range |-> asRange(<<0, 0>>),
                                        context |-> asCodeActionContext(Undefined)]]
    /\ values = [i \in Invocations |-> <<>>]
    /\ pos = [i \in Invocations |-> 1]
    /\ result = [i \in Invocations |-> <<>>]
    /\ groups = [i \in Invocations |-> <<>>]
    /\ gpos = [i \in Invocations |-> 1]
    /\ outcome = [i \in Invocations |-> "pending"]
    /\ transport = [i \in Invocations |-> "none"]
    /\ round = [i \in Invocations |-> 1]
    /\ first = [i \in Invocations |-> <<>>]
    /\ running = 0
    /\ sent = <<>>
    /\ log = <<>>
    /\ hpc = "idle"
    /\ hresponse = <<>>
    /\ hresult = <<>>

\* the steps of one code-action invocation whose response is drawn from `lists`
CodeActions(i, lists) ==
    \/ \E d \in Documents : provideCodeActions(i, d, <<1, 2>>, "diags")
    \/ CodeActionsFulfilled(i, lists)
    \/ CodeActionsNull(i)
    \/ CodeActionsRejected(i)
    \/ ProcessItem(i)
    \/ CollapseGroup(i)
    \/ ReturnResult(i)

\* one code-action request, answered and then run once more on its own output
Next ==
    \/ CodeActions(1, SeqsUpTo(Items, MaxLen))
    \/ RunOnOwnOutput(1)

Spec == Init /\ [][Next]_vars

\* two code-action requests in flight at the same time
NextConc == \E i \in Invocations : CodeActions(i, SeqsUpTo(ItemsConc, MaxLenConc))

SpecConc == Init /\ [][NextConc]_vars
\* the steps of one hover request whose response is drawn from `responses`
Hover(responses) ==
    \/ \E d \in Documents : provideHover(d, <<3, 4>>)
    \/ HoverFulfilled(responses)
    \/ HoverNull
    \/ HoverRejected("connection closed")

\* one hover request
NextHover == Hover(HoverResponses)

SpecHover == Init /\ [][NextHover]_vars

\* a hover request and a code-action request, each of which the transport may fail
NextFail ==
    \/ Hover({r \in HoverResponses : ~r.actions.present})
    \/ CodeActions(1, SeqsUpTo(ItemsConc, MaxLenConc))

SpecFail == Init /\ [][NextFail]_vars

-----------------------------------------------------------------------------
(* The vocabulary of the properties of the grouping pass.  These definitions *)
(* describe the expected output from the input list alone.                   *)

\* the first pass of invocation 1 has ended / ended by returning a list
Done1 == pc[1] = "done" /\ round[1] = 1
Accepted1 == Done1 /\ outcome[1] = "list"

IsStub(it) == it \in Stubs
IsPassThrough(it) == it.edit # Undefined /\ it.command = UndefinedCommand

\* the indices of the stubs of vs whose group field is G, in input order
RECURSIVE MembersFrom(_, _, _)
MembersFrom(vs, G, k) ==
    IF k > Len(vs) THEN <<>>
    ELSE (IF IsStub(vs[k]) /\ vs[k].group = G THEN <<k>> ELSE <<>>)
         \o MembersFrom(vs, G, k + 1)

Members(vs, G) == MembersFrom(vs, G, 1)

\* the group tags of vs, a tag being any value of the group field
TagsOf(vs) == {vs[k].group : k \in {j \in 1..Len(vs) : IsStub(vs[j])}} \ {Undefined}

\* the non-empty group tags of vs
NonEmptyTagsOf(vs) == TagsOf(vs) \ {""}

\* element k of vs opens a slot of its own: it is no stub of a group in
\* `tags`, or it is the first stub of its group
OpensSlot(vs, k, tags) ==
    \/ ~IsStub(vs[k])
    \/ vs[k].group \notin tags
    \/ \A j \in 1..(k - 1) : ~(IsStub(vs[j]) /\ vs[j].group = vs[k].group)

\* the slot of element k, counting the slots opened up to and including k
SlotOf(vs, k, tags) == Cardinality({j \in 1..k : OpensSlot(vs, j, tags)})

\* the plain action of a stub: its title and the deferred resolve invocation
PlainAction(title, id, p) ==
    [title |-> title, kind |-> Undefined, diagnostics |-> Undefined, edit |-> Undefined,
     command |-> [command |-> "rust-analyzer.resolveCodeAction", title |-> title,
                  arguments |-> <<[id |-> id, codeActionParams |-> p]>>]]

\* the {label, arguments} pairs of the stubs of vs at the indices m, in order
Pairs(vs, m, p) ==
    [n \in 1..Len(m) |->
        [label |-> vs[m[n]].title,
         arguments |-> [id |-> vs[m[n]].id, codeActionParams |-> p]]]

\* the action a is the composite of group G with the given pairs
IsComposite(a, G, pairs) ==
    /\ a.title = G
    /\ a.edit = Undefined
    /\ a.command # UndefinedCommand
    /\ a.command.command = "rust-analyzer.applyActionGroup"
    /\ a.command.arguments = <<[list |-> pairs]>>

IsAnyComposite(a) ==
    a.command # UndefinedCommand /\ a.command.command = "rust-analyzer.applyActionGroup"

\* C1 as stated, for the tags in `tags`: a group of k >= 2 stubs is one
\* composite at the slot of its first stub, and no member has a slot of its own
GroupedIntoOne(tags) ==
    Accepted1 =>
        \A G \in tags :
            LET m == Members(values[1], G)
            IN Len(m) >= 2 =>
                /\ SlotOf(values[1], m[1], tags) <= Len(result[1])
                /\ IsComposite(result[1][SlotOf(values[1], m[1], tags)], G,
                               Pairs(values[1], m, params[1]))
                /\ \A s \in 1..Len(result[1]) :
                       IsComposite(result[1][s], G, Pairs(values[1], m, params[1]))
                           => s = SlotOf(values[1], m[1], tags)
                /\ Len(result[1]) =
                       Cardinality({j \in 1..Len(values[1]) : OpensSlot(values[1], j, tags)})

\* C1 (as stated): for every accepted list in which k >= 2 stubs carry the same
\* group tag G, whatever the tag, the output holds exactly one action for G, the
\* composite titled G at the position of G's first occurrence, carrying the k
\* {label, arguments} pairs in input order, and no member has a slot of its own.
C1_AnyTagGrouped == GroupedIntoOne(TagsOf(values[1]))

\* C1 (amended): the same, for every non-empty group tag G.  Stubs whose group
\* field is the empty string are not grouped.
C1_NonEmptyTagGrouped == GroupedIntoOne(NonEmptyTagsOf(values[1]))

\* the example of C1: [A(g1), B, C(g1)] has given [composite(g1, [A, C]), B]
C1_Witness ==
    /\ Accepted1
    /\ Len(values[1]) = 3
    /\ values[1][1].title = "A" /\ values[1][1].group = "g1"
    /\ values[1][2].title = "B" /\ values[1][2].group = Undefined /\ IsStub(values[1][2])
    /\ values[1][3].title = "C" /\ values[1][3].group = "g1"
    /\ Len(result[1]) = 2
    /\ IsAnyComposite(result[1][1])
    /\ result[1][1].command.arguments[1].list[1].label = "A"
    /\ result[1][1].command.arguments[1].list[2].label = "C"
    /\ result[1][2].title = "B"

\* C2: for every accepted list in which exactly one stub carries group tag G,
\* no composite for G is in the output, and the slot of that stub holds the
\* plain action the stub would have produced with no group tag.
C2_SingleMemberUnwrapped ==
    Accepted1 =>
        \A G \in TagsOf(values[1]) :
            LET m == Members(values[1], G)
                slot == SlotOf(values[1], m[1], NonEmptyTagsOf(values[1]))
            IN Len(m) = 1 =>
                /\ slot <= Len(result[1])
                /\ result[1][slot] =
                       PlainAction(values[1][m[1]].title, values[1][m[1]].id, params[1])
                /\ \A s \in 1..Len(result[1]) :
                       ~(IsAnyComposite(result[1][s]) /\ result[1][s].title = G)

\* a lone member of g2 stands unwrapped behind a composite of g1
C2_Witness ==
    /\ Accepted1
    /\ Len(values[1]) = 3
    /\ values[1][1].group = "g1" /\ values[1][2].group = "g1" /\ values[1][3].group = "g2"
    /\ Len(result[1]) = 2
    /\ IsAnyComposite(result[1][1])
    /\ result[1][2] = PlainAction(values[1][3].title, values[1][3].id, params[1])

\* C3: for every list of stubs none of which carries a group tag, the output
\* has the input's length and order, the i-th action has the i-th stub's title
\* and the resolve invocation with the single argument {id, params of the
\* request}, no edit is computed, and the transport was handed one request.
C3_UngroupedInOrder ==
    (/\ Done1
     /\ transport[1] = "fulfilled"
     /\ \A k \in 1..Len(values[1]) : IsStub(values[1][k]) /\ values[1][k].group = Undefined)
    => /\ outcome[1] = "list"
       /\ Len(result[1]) = Len(values[1])
       /\ \A k \in 1..Len(values[1]) :
              /\ result[1][k].title = values[1][k].title
              /\ result[1][k].edit = Undefined
              /\ result[1][k].command # UndefinedCommand
              /\ result[1][k].command.command = "rust-analyzer.resolveCodeAction"
              /\ result[1][k].command.arguments =
                     <<[id |-> values[1][k].id, codeActionParams |-> sent[1].params]>>
       /\ Len(sent) = 1
       /\ sent[1].type = "textDocument/codeAction"

\* three ungrouped stubs have been turned into three actions
C3_Witness ==
    /\ Accepted1
    /\ Len(values[1]) = 3
    /\ \A k \in 1..3 : IsStub(values[1][k]) /\ values[1][k].group = Undefined
    /\ values[1][1].title = "C" /\ values[1][2].title = "A" /\ values[1][3].title = "B"
    /\ Len(result[1]) = 3

\* C4: for every list holding an element with no edit and its command field
\* set, whatever that command is and wherever the element stands, the promise
\* of provideCodeActions rejects with the assertion failure; it resolves
\* neither to a list nor to undefined.
C4_CommandWithoutEditAsserts ==
    (/\ Done1
     /\ transport[1] = "fulfilled"
     /\ \E k \in 1..Len(values[1]) :
            values[1][k].edit = Undefined /\ values[1][k].command # UndefinedCommand)
    => outcome[1] = "assertion"

\* the offending element is a bare command standing last, behind two grouped stubs
C4_Witness ==
    /\ Done1
    /\ outcome[1] = "assertion"
    /\ Len(values[1]) = 3
    /\ IsStub(values[1][1]) /\ values[1][1].group = "g1"
    /\ IsStub(values[1][2]) /\ values[1][2].group = "g1"
    /\ values[1][3].edit = Undefined
    /\ values[1][3].command = [string |-> "x.run"]
    /\ pos[1] = 3

\* C5 (as stated): running the pass on its own output ends normally and returns
\* a list equal to that output, element for element.
C5_PassThroughOfOwnOutput ==
    (pc[1] = "done" /\ round[1] = 2) => (outcome[1] = "list" /\ result[1] = first[1])

\* C5 (amended): running the pass on its own output ends in the assertion
\* failure whenever that output holds an action that carries an invocation, as
\* every action made from a stub and every composite does; only the empty
\* output is returned as it is.
C5_OwnOutputAsserts ==
    (pc[1] = "done" /\ round[1] = 2) =>
        /\ (\E k \in 1..Len(first[1]) : first[1][k].command # UndefinedCommand)
               => outcome[1] = "assertion"
        /\ first[1] = <<>> => (outcome[1] = "list" /\ result[1] = <<>>)

\* the output fed back held a composite and a plain action
C5_Witness ==
    /\ pc[1] = "done" /\ round[1] = 2
    /\ Len(first[1]) = 2
    /\ IsAnyComposite(first[1][1])
    /\ first[1][2].command # UndefinedCommand /\ ~IsAnyComposite(first[1][2])
    /\ outcome[1] = "assertion"

\* the slots of the output as C9 (b) counts and orders them, a stub being
\* grouped when its group field is in `tags`
SlotsAsCounted(tags) ==
    Accepted1 =>
        LET vs == values[1]
            passThrough == {k \in 1..Len(vs) : IsPassThrough(vs[k])}
            ungrouped == {k \in 1..Len(vs) : IsStub(vs[k]) /\ vs[k].group \notin tags}
        IN /\ Len(result[1]) = Cardinality(passThrough) + Cardinality(ungrouped)
                                   + Cardinality(tags)
           /\ \A k \in 1..Len(vs) :
                  OpensSlot(vs, k, tags) =>
                      LET s == SlotOf(vs, k, tags)
                      IN /\ s <= Len(result[1])
                         /\ k \in passThrough =>
                                /\ result[1][s].title = vs[k].title
                                /\ result[1][s].edit # Undefined
                                /\ result[1][s].command = UndefinedCommand
                         /\ k \in ungrouped =>
                                result[1][s] = PlainAction(vs[k].title, vs[k].id, params[1])
                         /\ (k \notin passThrough /\ k \notin ungrouped) =>
                                IF Len(Members(vs, vs[k].group)) = 1
                                THEN result[1][s] =
                                         PlainAction(vs[k].title, vs[k].id, params[1])
                                ELSE IsComposite(result[1][s], vs[k].group,
                                         Pairs(vs, Members(vs, vs[k].group), params[1]))

\* C9 (a): after each element is processed, every entry of the Map records a
\* valid index of the output, different entries record different indices, the
\* index is the slot opened by the first stub of the entry's group, and the
\* entry holds one item per stub of the group processed so far
EntriesPointAtTheirSlots ==
    \A e \in 1..Len(groups[1]) :
        LET G == groups[1][e].group
            m == Members(values[1], G)
        IN /\ groups[1][e].index \in 1..Len(result[1])
           /\ \A f \in 1..Len(groups[1]) :
                  f # e => /\ groups[1][f].index # groups[1][e].index
                           /\ groups[1][f].group # G
           /\ Len(m) >= 1
           /\ m[1] < pos[1]
           /\ groups[1][e].index = SlotOf(values[1], m[1], NonEmptyTagsOf(values[1]))
           /\ Len(groups[1][e].items) =
                  Cardinality({k \in 1..Len(m) : m[k] < pos[1]})

\* C9 (c): a step of the loop over the Map rewrites the slot of the entry it
\* visits and no other slot
CollapseRewritesOneSlot ==
    (pc[1] = "collapse" /\ gpos'[1] = gpos[1] + 1) =>
        /\ Len(result'[1]) = Len(result[1])
        /\ \A s \in 1..Len(result[1]) :
               s # groups[1][gpos[1]].index => result'[1][s] = result[1][s]

\* C9 (as stated): (a), (c), and (b) with every value of the group field
\* counting as a group tag: one slot per pass-through action, per stub without
\* group field and per distinct tag, in the order of the first elements.
C9_SlotsPerAnyTag == SlotsAsCounted(TagsOf(values[1]))

\* C9 (amended): (a), (c), and (b) with the non-empty values of the group field
\* as the group tags: a stub whose group field is the empty string counts as
\* ungrouped and has a slot of its own.
C9_SlotInvariant ==
    /\ [](EntriesPointAtTheirSlots /\ SlotsAsCounted(NonEmptyTagsOf(values[1])))
    /\ [][CollapseRewritesOneSlot]_vars

\* two interleaved groups and an ungrouped stub: g1, g2, g1 has given two slots
C9_Witness ==
    /\ Accepted1
    /\ Len(values[1]) = 3
    /\ values[1][1].group = "g1" /\ values[1][2].group = "g2" /\ values[1][3].group = "g1"
    /\ Len(groups[1]) = 2
    /\ groups[1][1].index = 1 /\ groups[1][2].index = 2
    /\ Len(result[1]) = 2
    /\ IsAnyComposite(result[1][1])
    /\ ~IsAnyComposite(result[1][2])

-----------------------------------------------------------------------------
(* Overlapping requests. *)

\* the output of the pass run alone on the list vs with the params p: one
\* action per element that opens a slot, in input order
AloneOutput(vs, p) ==
    LET tags == NonEmptyTagsOf(vs)
        n == Cardinality({k \in 1..Len(vs) : OpensSlot(vs, k, tags)})
        opener(s) == CHOOSE k \in 1..Len(vs) :
                         OpensSlot(vs, k, tags) /\ SlotOf(vs, k, tags) = s
        action(k) ==
            IF vs[k].group \in tags /\ Len(Members(vs, vs[k].group)) >= 2
            THEN [title |-> vs[k].group, kind |-> Undefined, diagnostics |-> Undefined,
                  edit |-> Undefined,
                  command |-> [command |-> "rust-analyzer.applyActionGroup",
                               title |-> "",
                               arguments |->
                                   <<[list |-> Pairs(vs, Members(vs, vs[k].group), p)]>>]]
            ELSE PlainAction(vs[k].title, vs[k].id, p)
    IN [s \in 1..n |-> action(opener(s))]

\* the resolve arguments an action carries, a composite carrying its members'
ResolveArguments(a) ==
    IF IsAnyComposite(a)
    THEN {a.command.arguments[1].list[n].arguments :
              n \in 1..Len(a.command.arguments[1].list)}
    ELSE {a.command.arguments[1]}

\* C10: whichever way the responses of two overlapping invocations arrive, each
\* invocation returns what it would return alone on its own response, and every
\* resolve argument it produced carries its own request's params.
C10_InvocationsIndependent ==
    \A i \in Invocations :
        (pc[i] = "done" /\ transport[i] = "fulfilled") =>
            /\ outcome[i] = "list"
            /\ result[i] = AloneOutput(values[i], params[i])
            /\ \A s \in 1..Len(result[i]) :
                   \A arg \in ResolveArguments(result[i][s]) :
                       arg.codeActionParams = params[i]

\* invocation 1 asked first, for a.rs; invocation 2 asked second, for b.rs, was
\* answered first and has returned a composite of g1; invocation 1 is now in the
\* middle of its own pass with its own g1 entry
C10_Witness ==
    /\ Len(sent) = 2
    /\ sent[1].params = params[1]
    /\ sent[2].params = params[2]
    /\ params[1] # params[2]
    /\ pc[2] = "done" /\ outcome[2] = "list"
    /\ Len(result[2]) = 1 /\ IsAnyComposite(result[2][1]) /\ result[2][1].title = "g1"
    /\ pc[1] = "loop" /\ pos[1] = 2
    /\ Len(groups[1]) = 1 /\ groups[1][1].group = "g1"

-----------------------------------------------------------------------------
(* The properties of the hover middleware. *)

\* the hover request was answered with a hover, which the middleware returned
HoverDone == hpc = "done" /\ hresponse # <<>>

\* the escaped JSON text of the argument lists the links carry
EscapedArguments(arguments) ==
    CASE arguments = <<1>> -> "%5B1%5D"
      [] arguments = <<1, 2>> -> "%5B1%2C2%5D"

\* a link as text, with the given tooltip text
LinkText(cmd, tooltip) ==
    "[" \o cmd.title \o "](command:" \o cmd.command \o "?"
        \o EscapedArguments(cmd.arguments) \o " '" \o tooltip \o "')"

\* the links of a group joined by " | ", the tooltip of each given by Tip
RECURSIVE LinksText(_, _, _)
LinksText(commands, Tip(_), k) ==
    IF k > Len(commands) THEN ""
    ELSE (IF k > 1 THEN " | " ELSE "") \o LinkText(commands[k], Tip(commands[k]))
         \o LinksText(commands, Tip, k + 1)

\* the groups joined by "___", each its title, a space and its links; a group
\* without title, or with an empty one, is its links alone
RECURSIVE GroupsText(_, _, _)
GroupsText(actions, Tip(_), g) ==
    IF g > Len(actions) THEN ""
    ELSE (IF g > 1 THEN "___" ELSE "")
         \o (IF actions[g].title \in {Undefined, ""} THEN "" ELSE actions[g].title \o " ")
         \o LinksText(actions[g].commands, Tip, 1)
         \o GroupsText(actions, Tip, g + 1)

TitleAsTip(cmd) == cmd.title
TooltipFieldAsTip(cmd) == IF cmd.tooltip = Undefined THEN "undefined" ELSE cmd.tooltip

\* the example of C6: one group "Fixes" with the link "Fix 1", which has no tooltip
ExampleActions ==
    <<[title |-> "Fixes",
       commands |-> <<[title |-> "Fix 1", command |-> "x.fix", tooltip |-> Undefined,
                       arguments |-> <<1>>]>>]>>

\* the text of the block appended to the hover
ActionBar == hresult[1].contents[Len(hresult[1].contents)].value

\* C6 (as stated): the tooltip of every link is its title, and the example
\* renders as "Fixes [Fix 1](command:x.fix?1 'Fix 1')".
C6_TooltipIsTitle ==
    (HoverDone /\ hresponse[1].actions.present) =>
        /\ ActionBar = GroupsText(hresponse[1].actions.list, TitleAsTip, 1)
        /\ hresponse[1].actions.list = ExampleActions =>
               ActionBar = "Fixes [Fix 1](command:x.fix?1 'Fix 1')"

\* C6 (amended): a link renders as [title](command:NAME?ARGS 'TOOLTIP'), ARGS
\* being the escaped JSON text of the argument list and TOOLTIP the link's
\* tooltip field, the text undefined when the link has none; a group is its
\* title and a space (nothing when the title is absent or empty) and its links
\* joined by " | "; groups are joined by "___".  The example renders as
\* "Fixes [Fix 1](command:x.fix?%5B1%5D 'undefined')".
C6_TooltipIsTooltipField ==
    (HoverDone /\ hresponse[1].actions.present) =>
        /\ ActionBar = GroupsText(hresponse[1].actions.list, TooltipFieldAsTip, 1)
        /\ hresult[1].contents[Len(hresult[1].contents)].isTrusted
        /\ hresponse[1].actions.list = ExampleActions =>
               ActionBar = "Fixes [Fix 1](command:x.fix?%5B1%5D 'undefined')"

\* two groups, the first with a title and two links, one of them with a tooltip
C6_Witness ==
    /\ HoverDone
    /\ hresponse[1].actions.present
    /\ ActionBar = "Fixes [Fix 1](command:x.fix?%5B1%5D 'undefined')"
                   \o " | [Go](command:x.goto?%5B1%2C2%5D 'Go to f')"
                   \o "___[Go](command:x.goto?%5B1%2C2%5D 'Go to f')"

\* the n blocks of the response, each trusted when it holds a rust code block
OriginalBlocks ==
    [k \in 1..Len(hresponse[1].contents) |->
        [value |-> hresponse[1].contents[k],
         isTrusted |-> hresponse[1].contents[k] \in RustFenced]]

\* C7 (as stated): n + 1 blocks are returned if and only if the actions list
\* is present and not empty; otherwise exactly the n blocks.
C7_AppendedIffNonEmpty ==
    HoverDone =>
        LET n == Len(hresponse[1].contents)
            nonEmpty == hresponse[1].actions.present /\ hresponse[1].actions.list # <<>>
        IN /\ Len(hresult[1].contents) \in {n, n + 1}
           /\ Len(hresult[1].contents) = n + 1 <=> nonEmpty

\* C7 (amended): n + 1 blocks, the n of the response followed by one trusted
\* block, are returned if and only if the actions list is present, empty or
\* not; exactly the n blocks are returned when it is absent.
C7_AppendedIffPresent ==
    HoverDone =>
        LET n == Len(hresponse[1].contents)
        IN /\ Len(hresult[1].contents) \in {n, n + 1}
           /\ Len(hresult[1].contents) = n + 1 <=> hresponse[1].actions.present
           /\ SubSeq(hresult[1].contents, 1, n) = OriginalBlocks
           /\ hresponse[1].actions.present => hresult[1].contents[n + 1].isTrusted

\* two blocks and an empty actions list have given three blocks, the last empty
C7_Witness ==
    /\ HoverDone
    /\ Len(hresponse[1].contents) = 2
    /\ hresponse[1].actions.present /\ hresponse[1].actions.list = <<>>
    /\ Len(hresult[1].contents) = 3
    /\ hresult[1].contents[3].value = ""

LoggedFor(type) == \E k \in 1..Len(log) : log[k].type = type

\* C8 (as stated): a rejected hover request and a rejected code-action request
\* are both logged, and the promise resolves to null, respectively undefined.
C8_RejectionsLogged ==
    /\ hpc = "failed" =>
           hresult[1].kind = "null" /\ LoggedFor("textDocument/hover")
    /\ (pc[1] = "done" /\ transport[1] = "rejected") =>
           outcome[1] = "undefined" /\ LoggedFor("textDocument/codeAction")

\* C8 (amended): a rejected hover request is logged and the promise resolves to
\* null; a rejected code-action request resolves to undefined and is not
\* logged.
C8_OnlyHoverRejectionLogged ==
    /\ hpc = "failed" =>
           hresult[1].kind = "null" /\ LoggedFor("textDocument/hover")
    /\ (pc[1] = "done" /\ transport[1] = "rejected") => outcome[1] = "undefined"
    /\ ~LoggedFor("textDocument/codeAction")
    /\ Len(log) = IF hpc = "failed" THEN 1 ELSE 0

\* both requests were rejected
C8_Witness ==
    /\ hpc = "failed"
    /\ pc[1] = "done" /\ transport[1] = "rejected"
    /\ Len(sent) = 2
====
